---- MODULE Spec2Model ----
(***************************************************************************)
(* ThreatLens: the AI idea generator (lib/ai_insight.py), the parallel    *)
(* news aggregator (lib/news_fetcher.py), the ideas command handler        *)
(* (cogs/ideas_cog.py) and the ideas store (lib/database.py).              *)
(*                                                                         *)
(* Python strings are sequences of one-character strings, so that the      *)
(* substring tests and str.lower() of the error classification are         *)
(* computed, not assumed.  A model response text is a sequence of lexical  *)
(* tokens (each with its width in characters) and json.loads is a decoder  *)
(* over those tokens.                                                      *)
(***************************************************************************)
EXTENDS Integers, Sequences, FiniteSets, TLC

\* ------------------------------------------------------------------ bounds
\* largest max_retries the caller passes (the smallest is -1: an empty range)
MaxRetriesBound == 2
\* number of filler characters appended to make an error text longer than
\* the truncation length
LongErrPad == 1

\* --------------------------------------------------------------- strings
UpperCase ==
  [c \in {"A","B","C","D","E","F","G","H","I","J","K","L","M","N","O","P","Q",
          "R","S","T","U","V","W","X","Y","Z"} |->
     CASE c = "A" -> "a" [] c = "B" -> "b" [] c = "C" -> "c" [] c = "D" -> "d"
       [] c = "E" -> "e" [] c = "F" -> "f" [] c = "G" -> "g" [] c = "H" -> "h"
       [] c = "I" -> "i" [] c = "J" -> "j" [] c = "K" -> "k" [] c = "L" -> "l"
       [] c = "M" -> "m" [] c = "N" -> "n" [] c = "O" -> "o" [] c = "P" -> "p"
       [] c = "Q" -> "q" [] c = "R" -> "r" [] c = "S" -> "s" [] c = "T" -> "t"
       [] c = "U" -> "u" [] c = "V" -> "v" [] c = "W" -> "w" [] c = "X" -> "x"
       [] c = "Y" -> "y" [] c = "Z" -> "z"]

\* str.lower()
lower(s) == [i \in 1..Len(s) |-> IF s[i] \in DOMAIN UpperCase THEN UpperCase[s[i]] ELSE s[i]]

\* the Python test  needle in hay
In(needle, hay) ==
  \E i \in 1..(Len(hay) - Len(needle) + 1) : SubSeq(hay, i, i + Len(needle) - 1) = needle

\* the Python slice  s[:n]
SliceOffByOne(s, n) == SubSeq(s, 1, IF Len(s) < n + 1 THEN Len(s) ELSE n + 1)
Slice(s, n) == SubSeq(s, 1, IF Len(s) < n THEN Len(s) ELSE n)

\* str(n) of a natural number
RECURSIVE Digits(_)
Digits(n) ==
  LET d == <<"0","1","2","3","4","5","6","7","8","9">>
  IN IF n < 10 THEN <<d[n + 1]>> ELSE Digits(n \div 10) \o <<d[(n % 10) + 1]>>

\* literals of the error classification
S503 == <<"5","0","3">>
SUNAVAILABLE == <<"U","N","A","V","A","I","L","A","B","L","E">>
Soverloaded == <<"o","v","e","r","l","o","a","d","e","d">>
S401 == <<"4","0","1">>
S403 == <<"4","0","3">>
SAPIkey == <<"A","P","I"," ","k","e","y">>
S429 == <<"4","2","9">>
Sratelimit == <<"r","a","t","e"," ","l","i","m","i","t">>

\* ----------------------------------------------- error texts of the transport
ErrUnavailable503 == <<"U","N","A","V","A","I","L","A","B","L","E"," ","5","0","3">>
ErrRateLimit == <<"R","a","t","e"," ","L","i","m","i","t"," ","h","i","t">>
ErrReset == <<"r","e","s","e","t">>
\* length of the raw error text kept in the generic error string
TruncateLen == 200
\* an error text longer than TruncateLen
ErrLong == [i \in 1..(TruncateLen + LongErrPad) |-> IF i <= 5 THEN ErrReset[i] ELSE "."]

TransportErrors ==
  {ErrUnavailable503,
   <<"M","o","d","e","l"," ","O","v","e","r","l","o","a","d","e","d">>,
   <<"A","P","I"," ","k","e","y"," ","i","n","v","a","l","i","d"," ","(","4","0","1",")">>,
   <<"4","0","3"," ","d","e","n","i","e","d">>,
   <<"A","P","I"," ","k","e","y"," ","n","o","t"," ","v","a","l","i","d">>,
   <<"4","2","9"," ","q","u","o","t","a">>,
   ErrRateLimit, ErrReset,
   <<"5","0","3"," ","4","0","1">>,
   <<"4","0","1"," ","4","2","9">>,
   ErrLong,
   <<"A","P","I"," ","k","e","y"," ","4","2","9">>}

\* str(e) of the TypeError json.loads raises for a response without text
NoneTypeError == <<"t","h","e"," ","J","S","O","N"," ","o","b","j","e","c","t"," ","m","u","s","t"," ","b","e"," ","s","t","r",","," ","b","y","t","e","s"," ","o","r"," ","b","y","t","e","a","r","r","a","y",","," ","n","o","t"," ","N","o","n","e","T","y","p","e">>

\* ------------------------------------------------------------- json.loads
MsgExpectingValue == <<"E","x","p","e","c","t","i","n","g"," ","v","a","l","u","e">>

\* tokens of a response text and their widths in characters
FenceJson == "fence_json"
Fence == "fence"
AtomType == [idea1 |-> "dict", idea2 |-> "dict", idea398 |-> "dict", idea426 |-> "dict",
             idea500 |-> "dict", null |-> "NoneType", num |-> "int", str |-> "str"]
TokWidth ==
  [t \in {FenceJson, Fence, " ", "[", "]", ",", "idea1", "idea2", "idea398", "idea426", "idea500",
           "null", "num", "str", "prose"} |->
     CASE t = FenceJson -> 7 [] t = Fence -> 3 [] t = "idea1" -> 40 [] t = "idea2" -> 40
       [] t = "idea398" -> 398 [] t = "idea426" -> 426 [] t = "idea500" -> 500
       [] t = "null" -> 4 [] t = "num" -> 2 [] t = "str" -> 4 [] t = "prose" -> 5
       [] OTHER -> 1]

\* character offset of token i of s
RECURSIVE CharPos(_, _)
CharPos(s, i) == IF i <= 1 THEN 0 ELSE CharPos(s, i - 1) + TokWidth[s[i - 1]]

\* WHITESPACE.match(s, i).end()
RECURSIVE SkipWs(_, _)
SkipWs(s, i) == IF i <= Len(s) /\ s[i] = " " THEN SkipWs(s, i + 1) ELSE i

DecodeOk(v, n) == [ok |-> TRUE, value |-> v, next |-> n, msg |-> <<>>, idx |-> 0]
DecodeFail(m, s, i) == [ok |-> FALSE, value |-> [type |-> "NoneType", tok |-> "", items |-> <<>>],
                        next |-> i, msg |-> m, idx |-> CharPos(s, i)]

\* the scanner of json.decoder: one value starting at token i
RECURSIVE scan_once(_, _), JSONArray(_, _, _)
scan_once(s, i) ==
  IF i > Len(s) THEN DecodeFail(MsgExpectingValue, s, i)
  ELSE IF s[i] \in DOMAIN AtomType
    THEN DecodeOk([type |-> AtomType[s[i]], tok |-> s[i], items |-> <<>>], i + 1)
  ELSE IF s[i] = "["
    THEN LET j == SkipWs(s, i + 1)
         IN IF j <= Len(s) /\ s[j] = "]"
              THEN DecodeOk([type |-> "list", tok |-> "[", items |-> <<>>], j + 1)
              ELSE JSONArray(s, j, <<>>)
  ELSE DecodeFail(MsgExpectingValue, s, i)
JSONArray(s, i, acc) ==
  LET r == scan_once(s, i)
  IN IF ~r.ok THEN r
     ELSE LET values == Append(acc, r.value)
              j == SkipWs(s, r.next)
          IN IF j <= Len(s) /\ s[j] = "]"
               THEN DecodeOk([type |-> "list", tok |-> "[", items |-> values], j + 1)
             ELSE IF j > Len(s) \/ s[j] # ","
               THEN DecodeFail(<<"E","x","p","e","c","t","i","n","g"," ","'",",","'"," ","d","e","l","i","m","i","t","e","r">>, s, j)
             ELSE JSONArray(s, SkipWs(s, j + 1), values)

\* str(e) of a JSONDecodeError
JSONDecodeErrorStr(r) ==
  r.msg \o <<":"," ","l","i","n","e"," ","1"," ","c","o","l","u","m","n"," ">> \o Digits(r.idx + 1)
        \o <<" ","(","c","h","a","r"," ">> \o Digits(r.idx) \o <<")">>

\* json.loads(s) for a str s
json_loads(s) ==
  LET r == scan_once(s, SkipWs(s, 1))
  IN IF ~r.ok THEN r
     ELSE LET end == SkipWs(s, r.next)
          IN IF end <= Len(s) THEN DecodeFail(<<"E","x","t","r","a"," ","d","a","t","a">>, s, end) ELSE r

\* text.replace(fence_json, empty).replace(fence, empty).strip(), with
\* fence_json the code-fence opener with the json tag and fence three backticks
RECURSIVE Remove(_, _)
Remove(s, t) ==
  IF s = <<>> THEN <<>>
  ELSE IF Head(s) = t THEN Remove(Tail(s), t) ELSE <<Head(s)>> \o Remove(Tail(s), t)
RECURSIVE strip(_)
strip(s) ==
  IF s = <<>> THEN s
  ELSE IF Head(s) = " " THEN strip(Tail(s))
  ELSE IF s[Len(s)] = " " THEN strip(SubSeq(s, 1, Len(s) - 1))
  ELSE s
StripFences(s) == strip(Remove(Remove(s, FenceJson), Fence))


\* ------------------------------------------------ exception class hierarchy
ExceptionBases ==
  [ServerError |-> {"ServerError", "APIError", "Exception", "BaseException"},
   ClientError |-> {"ClientError", "APIError", "Exception", "BaseException"},
   ConnectError |-> {"ConnectError", "Exception", "BaseException"},
   KeyError |-> {"KeyError", "LookupError", "Exception", "BaseException"},
   TypeError |-> {"TypeError", "Exception", "BaseException"},
   JSONDecodeError |-> {"JSONDecodeError", "ValueError", "Exception", "BaseException"}]
\* the classes the transport (client.models.generate_content) raises
TransportExceptionClasses == {"ServerError", "ClientError", "ConnectError"}
\* the class named by the handler  except Exception as e
OuterHandlerAPIErrorOnly == "APIError"
OuterHandlerClass == "Exception"
\* the class named by the handler  except json.JSONDecodeError
InnerHandlerClass == "JSONDecodeError"
\* does the handler naming class h catch an exception of class cls
Catches(h, cls) == h \in ExceptionBases[cls]

\* ------------------------------------------------------ inputs of one call
\* GEMINI_API_KEY in the environment: unset, set to the empty string, or set
EnvUnset == "<unset>"
EnvValues == {EnvUnset, "", "key"}
\* truth value of os.getenv(name): None and the empty string are falsy
TruthyNotNone(v) == v # EnvUnset
Truthy(v) == v # EnvUnset /\ v # ""

\* a news item is the set of keys it carries
FullItem == {"title", "link", "summary", "source"}
NewsItemLists == {<<>>, <<FullItem, FullItem>>, <<FullItem, {"link", "summary"}>>,
                  <<{"title", "link"}>>}
\* first key whose lookup fails while the prompt is built, "" when none does
RECURSIVE MissingKey(_)
MissingKey(items) ==
  IF items = <<>> THEN ""
  ELSE IF "title" \notin Head(items) THEN "title"
  ELSE IF "link" \notin Head(items) THEN "link"
  ELSE IF "summary" \notin Head(items) THEN "summary"
  ELSE MissingKey(Tail(items))
\* str(KeyError(key))
KeyErrorStr(key) ==
  CASE key = "title" -> <<"'","t","i","t","l","e","'">>
    [] key = "link" -> <<"'","l","i","n","k","'">>
    [] OTHER -> <<"'","s","u","m","m","a","r","y","'">>

\* response.text of the responses the model sends; has_text FALSE is None
NoText == [has_text |-> FALSE, text |-> <<>>]
Text(s) == [has_text |-> TRUE, text |-> s]
Responses ==
  {Text(<<"[", "idea1", ",", " ", "idea2", "]">>),
   Text(<<FenceJson, " ", "[", "idea2", "]", " ", Fence>>),
   Text(<<"[", "]">>),
   Text(<<" ", "idea1">>),
   Text(<<Fence, "idea2", Fence>>),
   Text(<<"null">>),
   Text(<<"str">>),
   Text(<<"num">>),
   Text(<<"prose">>),
   Text(<<"[", "idea1", ",">>),
   Text(<<FenceJson, "[", "idea1", "]", Fence, "prose">>),
   Text(<<"[", "idea500", ",", " ", "prose">>),
   Text(<<"[", "idea398", ",", " ", "prose">>),
   Text(<<FenceJson, "[", "idea426", ",", " ", "prose", Fence>>),
   NoText}

\* ------------------------------------------------------------------ state
VARIABLES
  ai_pc,          \* "idle", "call", "attempt", "returned", "raised"
  GEMINI_API_KEY, \* the environment variable
  news_items,     \* argument of analyze_news_for_ideas
  max_retries,    \* argument of analyze_news_for_ideas
  attempt,        \* loop variable of  for attempt in range(max_retries + 1)
  calls,          \* number of generate_content calls made
  sleeps,         \* the time.sleep arguments, in order
  error_strs,     \* str(e) of each failed attempt, in order
  last_response,  \* response of the last generate_content call that returned
  ai_result       \* the value returned

ai_vars == <<ai_pc, GEMINI_API_KEY, news_items, max_retries, attempt, calls, sleeps,
             error_strs, last_response, ai_result>>

\* state of one get_latest_news or get_cves_only call and of the pool _executor
VARIABLES
  news_pc,     \* "idle", "call", "collect", "returned", "raised"
  news_op,     \* the function called: "latest" or "cves_only"
  limit,       \* argument limit
  include_cves,\* argument of get_latest_news
  hangs,       \* the feeds whose server never answers feedparser.parse
  work_queue,  \* submitted tasks no worker of _executor has taken yet
  task_state,  \* per task: "new", "queued", "running", "done"
  task_feed,   \* per task: what feedparser.parse gave it
  task_items,  \* per task: the list its future holds once done
  yielded,     \* the futures as_completed has yielded
  vuln_docs,   \* what the CVE feeds and the NVD API answered to the call
  all_items,   \* the local all_items (cve_items), as it is before the sort
  news_result  \* the list returned

news_vars == <<news_pc, news_op, limit, include_cves, hangs, work_queue, task_state,
               task_feed, task_items, yielded, vuln_docs, all_items, news_result>>

\* state of one direct call of _fetch_rss_feed or _fetch_nvd_cve_recent
VARIABLES
  fetch_pc,    \* "idle", "call", "returned"
  fetch_op,    \* the function called: "rss" or "nvd"
  fetch_args,  \* what the call is given and what its source answers
  fetched      \* the list returned

fetch_vars == <<fetch_pc, fetch_op, fetch_args, fetched>>

\* state of one handle_ideas_command call (cogs/ideas_cog.py)
VARIABLES
  cog_pc,         \* "none" (no command), "command", "await", "done"
  embed,          \* the embed the handler answered with, "" before it did
  save_ideas_arg  \* the argument save_ideas was called with by the handler

cog_vars == <<cog_pc, embed, save_ideas_arg>>

\* the ideas table of the database file and the last operation made on it
VARIABLES
  ideas_table,     \* the rows of table ideas
  sqlite_sequence, \* the AUTOINCREMENT counter SQLite keeps for the table
  db_op,           \* the last operation of lib/database.py called
  db_result,       \* what that operation returned
  lastrowids       \* the ids its INSERT gave to the rows, in order

db_vars == <<ideas_table, sqlite_sequence, db_op, db_result, lastrowids>>

\* aggregation calls running at the same time on the shared pool _executor
VARIABLES
  call_pc,     \* per call: "idle", "submit", "collect", "returned"
  futures,     \* per call: the local list futures
  pool_queue,  \* submitted tasks no worker of _executor has taken yet
  pool_state,  \* per task: "new", "queued", "running", "done"
  pool_hangs,  \* the tasks whose server never answers
  call_items   \* per call: the tasks whose items are in its all_items

pool_vars == <<call_pc, futures, pool_queue, pool_state, pool_hangs, call_items>>

\* ------------------------------------------------------- returned values
NoValue == [type |-> "NoneType", tok |-> "", items |-> <<>>]
NotReturned == [type |-> "", msg |-> "", detail |-> <<>>, value |-> NoValue]
\* one of the fixed user-facing strings, detail the embedded raw error text
ErrorString(msg, detail) == [type |-> "str", msg |-> msg, detail |-> detail, value |-> NoValue]
\* a value decoded by json.loads
Decoded(v) == [type |-> v.type, msg |-> "", detail |-> <<>>, value |-> v]

\* --------------------------------------------------- error classification
\* line 89
IsOverloadError(error_str) ==
  In(S503, error_str) \/ In(SUNAVAILABLE, error_str) \/ In(Soverloaded, lower(error_str))
\* line 97
IsAuthError(error_str) ==
  In(S401, error_str) \/ In(S403, error_str) \/ In(SAPIkey, lower(error_str))
\* line 100
IsRateLimitErrorCaseSensitive(error_str) ==
  In(S429, error_str) \/ In(Sratelimit, error_str)
IsRateLimitError(error_str) ==
  In(S429, error_str) \/ In(Sratelimit, lower(error_str))

\* wait_time of the overload branch
OverloadWaitFromZero(a) == a * 2
OverloadWait(a) == (a + 1) * 2
\* the sleep of the generic branch
GenericWait == 1

Return(v) ==
  /\ ai_pc' = "returned"
  /\ ai_result' = v
  /\ UNCHANGED <<attempt, sleeps>>

\* time.sleep(wait_time); continue: the next value of range(max_retries + 1),
\* or line 110 when the range is exhausted
RetryNoSleep(wait_time) ==
  /\ sleeps' = sleeps
  /\ IF attempt + 1 < max_retries + 1
       THEN attempt' = attempt + 1 /\ UNCHANGED <<ai_pc, ai_result>>
       ELSE /\ ai_pc' = "returned"
            /\ ai_result' = ErrorString("failed", <<>>)
            /\ UNCHANGED attempt
RetrySameAttempt(wait_time) ==
  /\ sleeps' = Append(sleeps, wait_time)
  /\ UNCHANGED <<attempt, ai_pc, ai_result>>
Retry(wait_time) ==
  /\ sleeps' = Append(sleeps, wait_time)
  /\ IF attempt + 1 < max_retries + 1
       THEN attempt' = attempt + 1 /\ UNCHANGED <<ai_pc, ai_result>>
       ELSE /\ ai_pc' = "returned"
            /\ ai_result' = ErrorString("failed", <<>>)
            /\ UNCHANGED attempt

\* an exception of class cls and text error_str raised in the try body
ExceptHandler(cls, error_str) ==
  IF ~Catches(OuterHandlerClass, cls)
    THEN /\ ai_pc' = "raised"
         /\ UNCHANGED <<attempt, sleeps, ai_result, error_strs>>
    ELSE /\ error_strs' = Append(error_strs, error_str)
         /\ IF IsOverloadError(error_str)
              THEN IF attempt < max_retries
                     THEN Retry(OverloadWait(attempt))
                     ELSE Return(ErrorString("overloaded", <<>>))
            ELSE IF IsAuthError(error_str)
              THEN Return(ErrorString("auth_failed", <<>>))
            ELSE IF IsRateLimitError(error_str)
              THEN Return(ErrorString("rate_limited", <<>>))
            ELSE IF attempt < max_retries
                   THEN Retry(GenericWait)
                   ELSE Return(ErrorString("service_error", Slice(error_str, TruncateLen)))

\* lines 16-19: the credential check and the entry of the loop
AnalyzeStart ==
  /\ ai_pc = "call"
  /\ IF ~Truthy(GEMINI_API_KEY)
       THEN Return(ErrorString("not_configured", <<>>))
     ELSE IF max_retries + 1 <= 0
       THEN Return(ErrorString("failed", <<>>))
     ELSE /\ ai_pc' = "attempt"
          /\ UNCHANGED <<attempt, sleeps, ai_result>>
  /\ UNCHANGED <<GEMINI_API_KEY, news_items, max_retries, calls, error_strs, last_response>>
  /\ UNCHANGED news_vars
  /\ UNCHANGED fetch_vars
  /\ UNCHANGED <<cog_vars, db_vars, pool_vars>>

\* lines 23-26 fail: a news item lacks a key, before the transport is called
AttemptItemError ==
  /\ ai_pc = "attempt"
  /\ MissingKey(news_items) # ""
  /\ ExceptHandler("KeyError", KeyErrorStr(MissingKey(news_items)))
  /\ UNCHANGED <<GEMINI_API_KEY, news_items, max_retries, calls, last_response>>
  /\ UNCHANGED news_vars
  /\ UNCHANGED fetch_vars
  /\ UNCHANGED <<cog_vars, db_vars, pool_vars>>

\* line 72 raises
AttemptTransportError ==
  /\ ai_pc = "attempt"
  /\ MissingKey(news_items) = ""
  /\ calls' = calls + 1
  /\ \E cls \in TransportExceptionClasses, e \in TransportErrors : ExceptHandler(cls, e)
  /\ UNCHANGED <<GEMINI_API_KEY, news_items, max_retries, last_response>>
  /\ UNCHANGED news_vars
  /\ UNCHANGED fetch_vars
  /\ UNCHANGED <<cog_vars, db_vars, pool_vars>>

\* lines 72-84: the transport returns a response, which is decoded
AttemptResponse ==
  /\ ai_pc = "attempt"
  /\ MissingKey(news_items) = ""
  /\ calls' = calls + 1
  /\ \E response \in Responses :
       /\ last_response' = response
       /\ IF ~response.has_text
            THEN ExceptHandler("TypeError", NoneTypeError)
            ELSE LET first == json_loads(response.text)
                     second == json_loads(StripFences(response.text))
                 IN IF first.ok
                      THEN Return(Decoded(first.value)) /\ UNCHANGED error_strs
                    ELSE IF ~Catches(InnerHandlerClass, "JSONDecodeError")
                      THEN ExceptHandler("JSONDecodeError", JSONDecodeErrorStr(first))
                    ELSE IF second.ok
                      THEN Return(Decoded(second.value)) /\ UNCHANGED error_strs
                    ELSE ExceptHandler("JSONDecodeError", JSONDecodeErrorStr(second))
  /\ UNCHANGED <<GEMINI_API_KEY, news_items, max_retries>>
  /\ UNCHANGED news_vars
  /\ UNCHANGED fetch_vars
  /\ UNCHANGED <<cog_vars, db_vars, pool_vars>>


\* =================================================== lib/news_fetcher.py
\* number of entries of NEWS_FEEDS the model keeps
NumNewsFeeds == 3
\* largest limit the caller passes
MaxLimit == 4
\* ThreadPoolExecutor(max_workers=5)
max_workers == 5

NewsTasks == 1..NumNewsFeeds

\* ------------------------------------------- values of feed and API fields
\* a field of a parsed entry: missing, a str, or a value that is no str
AbsentV == [k |-> "absent", s |-> <<>>]
StrV(s) == [k |-> "str", s |-> s]
IntV == [k |-> "int", s |-> <<>>]
\* truth value of entry.get(key): None and the empty string are falsy
TruthyV(v) == v.k = "int" \/ (v.k = "str" /\ v.s # <<>>)

\* the date of an item: absent (None), or an ISO string that is naive (no
\* offset), aware (a Z or an offset) or not parseable; t orders the instants
NoDate == [kind |-> "absent", t |-> 0]
Naive(t) == [kind |-> "naive", t |-> t]
Aware(t) == [kind |-> "aware", t |-> t]
EmptyDate == [kind |-> "empty", t |-> 0]
InvalidDate == [kind |-> "invalid", t |-> 0]

\* literals of news_fetcher.py
SNoDescription == <<"N","o"," ","d","e","s","c","r","i","p","t","i","o","n"," ","a","v","a","i","l","a","b","l","e",".">>
SNistNvd == <<"N","I","S","T"," ","N","V","D">>
\* the truncation length of summary
SummaryLen == 500
\* the truncation length of the description inside an NVD title
NvdTitleLen == 100

DigitChars == {"0","1","2","3","4","5","6","7","8","9"}
Min(a, b) == IF a < b THEN a ELSE b
SetMin(S) == CHOOSE x \in S : \A y \in S : x <= y

\* end of the match of _HTML_TAG_PATTERN  <[^<]+?>  that starts at i, 0 if
\* there is none: the nearest > after at least one character, no < between
TagEnd(s, i) ==
  IF s[i] # "<" THEN 0
  ELSE LET opens == {n \in (i + 1)..Len(s) : s[n] = "<"}
           stop == IF opens = {} THEN Len(s) + 1 ELSE SetMin(opens)
           ends == {j \in (i + 2)..(stop - 1) : s[j] = ">"}
       IN IF ends = {} THEN 0 ELSE SetMin(ends)
\* _HTML_TAG_PATTERN.sub('', text)
RECURSIVE SubTags(_)
SubTags(s) ==
  LET starts == {i \in 1..Len(s) : TagEnd(s, i) # 0}
  IN IF starts = {} THEN s
     ELSE LET i == SetMin(starts)
          IN SubSeq(s, 1, i - 1) \o SubTags(SubSeq(s, TagEnd(s, i) + 1, Len(s)))
\* str.replace(old, new)
RECURSIVE replace(_, _, _)
replace(s, old, new) ==
  LET at == {i \in 1..(Len(s) - Len(old) + 1) : SubSeq(s, i, i + Len(old) - 1) = old}
  IN IF at = {} THEN s
     ELSE LET i == SetMin(at)
          IN SubSeq(s, 1, i - 1) \o new \o replace(SubSeq(s, i + Len(old), Len(s)), old, new)
\* str.strip()
StripWs(s) ==
  LET keep == {i \in 1..Len(s) : s[i] \notin {" ", "\n", "\t"}}
  IN IF keep = {} THEN <<>>
     ELSE SubSeq(s, SetMin(keep), CHOOSE x \in keep : \A y \in keep : y <= x)

\* _clean_html for a str: lines 50-55
_clean_html(text) ==
  IF text = <<>> \/ ~In(<<"<">>, text) THEN text
  ELSE StripWs(replace(replace(SubTags(text), <<"&","n","b","s","p",";">>, <<" ">>), <<"&","a","m","p",";">>, <<"&">>))

\* re.search(r'CVE-\d{4}-\d{4,}', s): the leftmost match, <<>> if none
CveMatchAt(s, i) ==
  /\ i + 12 <= Len(s)
  /\ SubSeq(s, i, i + 3) = <<"C","V","E","-">>
  /\ \A k \in (i + 4)..(i + 7) : s[k] \in DigitChars
  /\ s[i + 8] = "-"
  /\ \A k \in (i + 9)..(i + 12) : s[k] \in DigitChars
\* end of the match that starts at i: \d{4,} is greedy
MatchEnd(s, i) ==
  CHOOSE e \in (i + 12)..Len(s) :
    /\ \A k \in (i + 9)..e : s[k] \in DigitChars
    /\ e = Len(s) \/ s[e + 1] \notin DigitChars
CveSearchLast(s) ==
  LET starts == {i \in 1..Len(s) : CveMatchAt(s, i)}
  IN IF starts = {} THEN <<>>
     ELSE CHOOSE m \in {SubSeq(s, i, MatchEnd(s, i)) :
                          i \in {CHOOSE x \in starts : \A y \in starts : y <= x}} : TRUE
CveSearch(s) ==
  LET starts == {i \in 1..Len(s) : CveMatchAt(s, i)}
  IN IF starts = {} THEN <<>>
     ELSE CHOOSE m \in {SubSeq(s, i, MatchEnd(s, i)) : i \in {SetMin(starts)}} : TRUE

\* the summary kept in an item: line 77
CutSummaryOneMore(summary) == SubSeq(summary, 1, Min(Len(summary), SummaryLen + 1))
CutSummary(summary) ==
  IF Len(summary) > SummaryLen THEN SubSeq(summary, 1, SummaryLen) ELSE summary

\* an item dict; has_cve_id and has_cvss tell whether the key is present
NewsItem(title, link, summary, source, date, type, cve_id, cvss) ==
  [title |-> title, link |-> link, summary |-> summary, source |-> source,
   date |-> date, type |-> type,
   has_cve_id |-> cve_id.k # "absent", cve_id |-> cve_id.s,
   cvss_score |-> cvss]
\* cvss_score of an item: the key is missing, or None, or a number
NoCvssKey == [k |-> "nokey", v |-> 0]
CvssNone == [k |-> "none", v |-> 0]
Cvss(v) == [k |-> "num", v |-> v]

\* an entry of a parsed feed
Entry(title, link, summary, description, published_parsed) ==
  [title |-> title, link |-> link, summary |-> summary, description |-> description,
   published_parsed |-> published_parsed]
\* entry.published_parsed: missing, a time tuple, or one datetime() rejects
NoTime == [k |-> "absent", t |-> 0]
TimeTuple(t) == [k |-> "valid", t |-> t]
BadTimeTuple == [k |-> "invalid", t |-> 0]

\* _parse_feed_entry: lines 58-91; ok FALSE is the None of the except branch
_parse_feed_entry(entry, source_name, is_cve) ==
  LET title == IF entry.title.k = "absent" THEN <<"U","n","t","i","t","l","e","d">> ELSE entry.title.s
      link == IF entry.link.k = "absent" THEN <<>> ELSE entry.link.s
      raw == IF TruthyV(entry.summary) THEN entry.summary
             ELSE IF TruthyV(entry.description) THEN entry.description
             ELSE StrV(SNoDescription)
      summary == _clean_html(raw.s)
      date_str == IF entry.published_parsed.k = "valid"
                    THEN Naive(entry.published_parsed.t) ELSE NoDate
      found == IF is_cve THEN CveSearch(title \o <<" ">> \o link) ELSE <<>>
      cve_id == IF found = <<>> THEN AbsentV ELSE StrV(found)
  IN IF raw.k # "str"
       THEN [ok |-> FALSE,
             item |-> NewsItem(<<>>, <<>>, <<>>, source_name, NoDate, "", AbsentV, NoCvssKey)]
       ELSE [ok |-> TRUE,
             item |-> NewsItem(title, link, CutSummary(summary), source_name, date_str,
                               IF is_cve THEN "CVE" ELSE "News", cve_id, NoCvssKey)]

\* what feedparser.parse(feed_url) gives: it raises, or a list of entries
\* (empty for a payload it cannot parse)
FeedRaises == [raises |-> TRUE, entries |-> <<>>]
Feed(entries) == [raises |-> FALSE, entries |-> entries]

\* _fetch_rss_feed: lines 94-111
RECURSIVE ParseEntries(_, _, _)
ParseEntries(entries, source_name, is_cve) ==
  IF entries = <<>> THEN <<>>
  ELSE LET r == _parse_feed_entry(Head(entries), source_name, is_cve)
       IN (IF r.ok THEN <<r.item>> ELSE <<>>)
          \o ParseEntries(Tail(entries), source_name, is_cve)
FetchStopsAtBadEntry(feed, source_name, is_cve, max_items) ==
  IF feed.raises THEN <<>>
  ELSE LET first == SubSeq(feed.entries, 1, Min(Len(feed.entries), max_items))
       IN IF \E i \in 1..Len(first) : ~_parse_feed_entry(first[i], source_name, is_cve).ok
            THEN <<>>
            ELSE ParseEntries(first, source_name, is_cve)
_fetch_rss_feed(feed, source_name, is_cve, max_items) ==
  IF feed.raises THEN <<>>
  ELSE ParseEntries(SubSeq(feed.entries, 1, Min(Len(feed.entries), max_items)),
                    source_name, is_cve)

\* ------------------------------------------------- _fetch_nvd_cve_recent
SEn == <<"e","n">>
\* the list metrics[metric_key]: the key is missing, the list is empty, its
\* first element has no cvssData.baseScore, or it has the score v
NoMetric == [k |-> "absent", v |-> 0]
EmptyMetric == [k |-> "empty", v |-> 0]
MetricNoScore == [k |-> "noscore", v |-> 0]
Metric(v) == [k |-> "score", v |-> v]
\* metrics of a record, keyed by cvssMetricV31, cvssMetricV30, cvssMetricV2
Metrics(v31, v30, v2) == <<v31, v30, v2>>
\* an element of data['vulnerabilities']; is_dict FALSE is a value without
\* a get method (null, a string), on which vuln.get raises
VulnRecord(id, descriptions, metrics, published) ==
  [is_dict |-> TRUE, id |-> id, descriptions |-> descriptions, metrics |-> metrics,
   published |-> published]
NullRecord ==
  [is_dict |-> FALSE, id |-> AbsentV, descriptions |-> <<>>,
   metrics |-> Metrics(NoMetric, NoMetric, NoMetric), published |-> EmptyDate]
Description(lang, value) == [lang |-> lang, value |-> value]

\* the answer of requests.get and response.json(): a RequestException, a
\* status other than 200, a body json() rejects, a body without the key
\* vulnerabilities, or the list of records
NvdNetworkError == [kind |-> "network_error", records |-> <<>>]
NvdData(records) == [kind |-> "ok", records |-> records]

\* lines 138-146
NvdDescription(descriptions) ==
  LET en == {i \in 1..Len(descriptions) : descriptions[i].lang = SEn}
      description == IF en = {} THEN SNoDescription ELSE descriptions[SetMin(en)].value
  IN IF descriptions # <<>> /\ description = SNoDescription
       THEN descriptions[1].value ELSE description
\* lines 148-153: the first key that is present with a non-empty list ends
\* the loop, whether or not its first element carries a baseScore
NvdCvssScore(metrics) ==
  LET present == {i \in 1..3 : metrics[i].k \in {"noscore", "score"}}
  IN IF present = {} THEN CvssNone
     ELSE IF metrics[SetMin(present)].k = "score"
       THEN Cvss(metrics[SetMin(present)].v) ELSE CvssNone
\* lines 135-164: the item of one record
NvdItem(vuln) ==
  LET cve_id == IF vuln.id.k = "absent" THEN <<"U","n","k","n","o","w","n">> ELSE vuln.id.s
      description == NvdDescription(vuln.descriptions)
  IN NewsItem(cve_id \o <<":", " ">> \o SubSeq(description, 1, Min(Len(description), NvdTitleLen)),
              <<"h","t","t","p","s",":","/","/","n","v","d",".","n","i","s","t",".","g","o","v","/","v","u","l","n","/","d","e","t","a","i","l","/">> \o cve_id,
              SubSeq(description, 1, Min(Len(description), SummaryLen)),
              SNistNvd, vuln.published, "CVE", StrV(cve_id), NvdCvssScore(vuln.metrics))
\* lines 117-170: the loop ends at the first record that raises; the except
\* clauses are outside the loop, and line 170 returns what was appended
_fetch_nvd_cve_recent(response, nvd_limit) ==
  IF response.kind # "ok" THEN <<>>
  ELSE LET records == SubSeq(response.records, 1, Min(Len(response.records), nvd_limit))
           bad == {i \in 1..Len(records) : ~records[i].is_dict}
           n == IF bad = {} THEN Len(records) ELSE SetMin(bad) - 1
       IN [i \in 1..n |-> NvdItem(records[i])]

\* ------------------------------------ documents the aggregator is served
TitlePlain == <<"P","a","t","c","h"," ","d","a","y">>
TitleOld == <<"O","l","d"," ","b","u","g">>
TitleCve == <<"F","i","x"," ","f","o","r"," ","C","V","E","-","2","0","2","4","-","1","2","3","4","5"," ","o","u","t">>
LinkPlain == <<"h","t","t","p",":","/","/","x","/","a">>
LinkCve == <<"h","t","t","p",":","/","/","x","/","C","V","E","-","2","0","2","3","-","0","0","0","1">>
BodyPlain == <<"a"," ","&","a","m","p",";"," ","b">>
BodyHtml == <<"<","p",">","a"," ","&","a","m","p",";"," ","b","<","/","p",">","&","n","b","s","p",";"," ">>
CveId1 == <<"C","V","E","-","2","0","2","4","-","1","2","3","4","5">>
CveId2 == <<"C","V","E","-","2","0","2","3","-","0","0","0","1","1">>
DescEn == <<"h","e","a","p"," ","o","v","e","r","f","l","o","w">>
DescEs == <<"d","e","s","b","o","r","d","a","m","i","e","n","t","o">>

\* source_name of the task of NEWS_FEEDS[f] and of the two CVE_FEEDS
SourceName(f) == <<"f">> \o Digits(f)
SCveSource1 == <<"n","v","d","-","r","s","s","-","a","n","a","l","y","z","e","d",".","x","m","l">>
SCveSource2 == <<"r","s","s">>

NewsEntryA == Entry(StrV(TitlePlain), StrV(LinkPlain), StrV(BodyPlain), AbsentV, TimeTuple(2))
NewsEntryC == Entry(AbsentV, AbsentV, StrV(BodyHtml), AbsentV, TimeTuple(1))
\* what feedparser.parse gives a news task: an exception (network failure),
\* no entries (malformed payload), or entries
NewsFeedDocs ==
  {FeedRaises, Feed(<<>>), Feed(<<NewsEntryA>>),
   Feed(<<Entry(StrV(TitleOld), StrV(LinkPlain), AbsentV, AbsentV, NoTime),
          NewsEntryC, NewsEntryA>>)}

CveFeedDocs ==
  {FeedRaises,
   Feed(<<Entry(StrV(TitleCve), StrV(LinkPlain), StrV(BodyPlain), AbsentV, TimeTuple(3)),
          Entry(StrV(TitleOld), StrV(LinkCve), AbsentV, AbsentV, NoTime),
          Entry(StrV(TitleCve), StrV(LinkPlain), StrV(BodyPlain), AbsentV, TimeTuple(3))>>)}

NvdRecord(published) ==
  VulnRecord(StrV(CveId1), <<Description(SEn, DescEn)>>,
             Metrics(Metric(98), NoMetric, NoMetric), published)
NvdResponses ==
  {NvdNetworkError,
   NvdData(<<NvdRecord(Aware(2))>>),
   NvdData(<<NvdRecord(InvalidDate)>>),
   NvdData(<<NvdRecord(Naive(4)), NvdRecord(Naive(3)), NvdRecord(EmptyDate),
             NvdRecord(Naive(2))>>)}

\* ------------------------- what a direct call of the fetchers is given
\* characters a long body has beyond SummaryLen
LongBodyPad == 2
\* most entries of a feed document, most records of an API answer
MaxEntries == 2
MaxRecords == 2
\* largest max_items and largest limit of a direct call
MaxItemsArg == 2
MaxNvdLimitArg == 2

\* a text of SummaryLen + LongBodyPad characters whose characters tell their
\* position
LongBody == [i \in 1..(SummaryLen + LongBodyPad) |-> Digits(i % 10)[1]]
\* entries a feed document is made of: plain and HTML bodies, bodies of
\* SummaryLen characters and more, a summary that is no str (on which
\* _clean_html raises TypeError), an empty summary with a description, a
\* time tuple datetime() rejects, titles and links with and without CVE ids
FetchEntries ==
  {NewsEntryA, NewsEntryC,
   Entry(StrV(TitleOld), StrV(LinkCve), AbsentV, AbsentV, NoTime),
   Entry(StrV(TitlePlain), StrV(LinkPlain), StrV(LongBody), AbsentV, TimeTuple(1)),
   Entry(StrV(TitlePlain), StrV(LinkPlain), AbsentV,
         StrV(<<"<","b",">">> \o LongBody \o <<"<","/","b",">">>), NoTime),
   Entry(StrV(TitlePlain), AbsentV, StrV(SubSeq(LongBody, 1, SummaryLen)), AbsentV, NoTime),
   Entry(StrV(TitleCve), StrV(LinkPlain), IntV, AbsentV, TimeTuple(2)),
   Entry(StrV(TitleOld), StrV(LinkPlain), StrV(<<>>), StrV(BodyHtml), BadTimeTuple),
   Entry(StrV(<<"C","V","E","-","2","0","2","4","-","1","2","3">>), StrV(LinkPlain), StrV(BodyPlain), AbsentV, NoTime),
   Entry(StrV(TitleCve), StrV(LinkCve), StrV(BodyPlain), AbsentV, TimeTuple(3))}
SeqsUpTo(S, n) == UNION {[1..k -> S] : k \in 0..n}

\* records of an API answer: complete, without id, with a v3.1 metric that
\* has no score before a v2 score, bare, with an empty v3.1 list, and null
FetchRecords ==
  {NvdRecord(Naive(2)),
   VulnRecord(AbsentV, <<Description(<<"e","s">>, DescEs), Description(SEn, LongBody)>>,
              Metrics(NoMetric, EmptyMetric, Metric(75)), Aware(1)),
   VulnRecord(StrV(CveId2), <<Description(<<"e","s">>, DescEs)>>,
              Metrics(MetricNoScore, NoMetric, Metric(75)), EmptyDate),
   VulnRecord(StrV(CveId2), <<>>, Metrics(NoMetric, NoMetric, NoMetric), InvalidDate),
   VulnRecord(StrV(CveId1), <<Description(SEn, DescEn)>>,
              Metrics(EmptyMetric, Metric(61), Metric(75)), Naive(1)),
   NullRecord}


FetchArgs(feed, is_cve, max_items, response, nvd_limit) ==
  [feed |-> feed, is_cve |-> is_cve, max_items |-> max_items, response |-> response,
   nvd_limit |-> nvd_limit]
NoFetchArgs == FetchArgs(FeedRaises, FALSE, 0, NvdNetworkError, 0)

\* get_sort_key: datetime.min for an absent or unparseable date
GetSortKeyAbsentNewest(item) ==
  IF item.date.kind \in {"naive", "aware"}
    THEN [aware |-> item.date.kind = "aware", t |-> item.date.t]
    ELSE [aware |-> FALSE, t |-> 9]
get_sort_key(item) ==
  IF item.date.kind \in {"naive", "aware"}
    THEN [aware |-> item.date.kind = "aware", t |-> item.date.t]
    ELSE [aware |-> FALSE, t |-> 0]
\* comparing an offset-naive with an offset-aware datetime raises TypeError
SortRaises(items) ==
  \E i, j \in 1..Len(items) : get_sort_key(items[i]).aware # get_sort_key(items[j]).aware
\* list.sort(key=get_sort_key, reverse=True): stable, descending
RECURSIVE InsertDesc(_, _)
InsertDesc(sorted, x) ==
  IF sorted = <<>> THEN <<x>>
  ELSE IF get_sort_key(Head(sorted)).t >= get_sort_key(x).t
    THEN <<Head(sorted)>> \o InsertDesc(Tail(sorted), x)
    ELSE <<x>> \o sorted
\* the sorted prefix and the element are bound, so each is computed once
RECURSIVE SortDesc(_)
SortDesc(items) ==
  IF items = <<>> THEN <<>>
  ELSE CHOOSE r \in {InsertDesc(sorted, x) :
                       sorted \in {SortDesc(SubSeq(items, 1, Len(items) - 1))},
                       x \in {items[Len(items)]}} : TRUE


\* max_items of the tasks of get_latest_news, line 189
NewsMaxItems == 2
\* max_items of the CVE feed fetches of get_latest_news, line 202
CveMaxItems == 2
\* limit of the NVD call of get_latest_news, line 206
NvdLimit == 3
\* max_items of the CVE feed fetches of get_cves_only, line 237
CvesOnlyMaxItems == 3

\* the slice  items[:limit]  for a limit that is not negative
TruncateOneMore(items, n) == SubSeq(items, 1, Min(Len(items), n + 1))
Truncate(items, n) == SubSeq(items, 1, Min(Len(items), n))

\* _fetch_rss_feed and _fetch_nvd_cve_recent on every document the
\* aggregator can be served, computed once
NewsFeedResults ==
  {[task |-> t, doc |-> doc,
    items |-> _fetch_rss_feed(doc, SourceName(t), FALSE, NewsMaxItems)] :
     t \in NewsTasks, doc \in NewsFeedDocs}
CveFeedResults ==
  {[source_name |-> source_name, doc |-> doc, max_items |-> max_items,
    items |-> _fetch_rss_feed(doc, source_name, TRUE, max_items)] :
     source_name \in {SCveSource1, SCveSource2}, doc \in CveFeedDocs,
     max_items \in {CveMaxItems, CvesOnlyMaxItems}}
NvdResults ==
  {[response |-> response, nvd_limit |-> nvd_limit,
    items |-> _fetch_nvd_cve_recent(response, nvd_limit)] :
     response \in NvdResponses, nvd_limit \in (0..MaxLimit) \cup {NvdLimit}}

\* no CVE source was asked
NoVulnDocs == [asked |-> FALSE, cve1 |-> FeedRaises, cve2 |-> FeedRaises, nvd |-> NvdNetworkError]
\* lines 200-207 and 235-242: the CVE feeds in turn, then the NVD API
VulnItems(docs, max_items, nvd_limit) ==
  (CHOOSE r \in CveFeedResults :
     r.source_name = SCveSource1 /\ r.doc = docs.cve1 /\ r.max_items = max_items).items
    \o (CHOOSE r \in CveFeedResults :
          r.source_name = SCveSource2 /\ r.doc = docs.cve2 /\ r.max_items = max_items).items
    \o (CHOOSE r \in NvdResults : r.response = docs.nvd /\ r.nvd_limit = nvd_limit).items

\* lines 218-220 and 253-255: sort, cut and return, or the TypeError of sort
SortAndReturn(merged) ==
  /\ all_items' = merged
  /\ IF SortRaises(merged)
       THEN news_pc' = "raised" /\ UNCHANGED news_result
       ELSE news_pc' = "returned" /\ news_result' = Truncate(SortDesc(merged), limit)

\* lines 186-190: one task per feed is submitted to _executor
SubmitFeeds ==
  /\ news_pc = "call"
  /\ news_op = "latest"
  /\ work_queue' = [i \in 1..NumNewsFeeds |-> i]
  /\ task_state' = [t \in NewsTasks |-> "queued"]
  /\ news_pc' = "collect"
  /\ UNCHANGED <<news_op, limit, include_cves, hangs, task_feed, task_items, yielded,
                 vuln_docs, all_items, news_result>>
  /\ UNCHANGED ai_vars
  /\ UNCHANGED fetch_vars
  /\ UNCHANGED <<cog_vars, db_vars, pool_vars>>

\* a free worker of _executor takes the oldest queued task
WorkerStart ==
  /\ work_queue # <<>>
  /\ Cardinality({t \in NewsTasks : task_state[t] = "running"}) < max_workers
  /\ task_state' = [task_state EXCEPT ![Head(work_queue)] = "running"]
  /\ work_queue' = Tail(work_queue)
  /\ UNCHANGED <<news_pc, news_op, limit, include_cves, hangs, task_feed, task_items,
                 yielded, vuln_docs, all_items, news_result>>
  /\ UNCHANGED ai_vars
  /\ UNCHANGED fetch_vars
  /\ UNCHANGED <<cog_vars, db_vars, pool_vars>>

\* lines 94-111: _fetch_rss_feed returns; feedparser.parse has no timeout,
\* so the task of a feed that never answers stays running
WorkerFinish(t) ==
  /\ task_state[t] = "running"
  /\ t \notin hangs
  /\ \E r \in NewsFeedResults :
       /\ r.task = t
       /\ task_feed' = [task_feed EXCEPT ![t] = r.doc]
       /\ task_items' = [task_items EXCEPT ![t] = r.items]
  /\ task_state' = [task_state EXCEPT ![t] = "done"]
  /\ UNCHANGED <<news_pc, news_op, limit, include_cves, hangs, work_queue, yielded,
                 vuln_docs, all_items, news_result>>
  /\ UNCHANGED ai_vars
  /\ UNCHANGED fetch_vars
  /\ UNCHANGED <<cog_vars, db_vars, pool_vars>>

\* lines 192-197: as_completed(futures), called without a timeout, yields a
\* future once it is done; result(timeout=5) of a done future returns at once
CollectFutureOverwrites(t) ==
  /\ news_pc = "collect"
  /\ task_state[t] = "done"
  /\ t \notin yielded
  /\ yielded' = yielded \cup {t}
  /\ all_items' = task_items[t]
  /\ UNCHANGED <<news_pc, news_op, limit, include_cves, hangs, work_queue, task_state,
                 task_feed, task_items, vuln_docs, news_result>>
  /\ UNCHANGED ai_vars
  /\ UNCHANGED fetch_vars
  /\ UNCHANGED <<cog_vars, db_vars, pool_vars>>
CollectFuture(t) ==
  /\ news_pc = "collect"
  /\ task_state[t] = "done"
  /\ t \notin yielded
  /\ yielded' = yielded \cup {t}
  /\ all_items' = all_items \o task_items[t]
  /\ UNCHANGED <<news_pc, news_op, limit, include_cves, hangs, work_queue, task_state,
                 task_feed, task_items, vuln_docs, news_result>>
  /\ UNCHANGED ai_vars
  /\ UNCHANGED fetch_vars
  /\ UNCHANGED <<cog_vars, db_vars, pool_vars>>

\* lines 199-220: as_completed is exhausted when every future was yielded;
\* the CVE feeds and the NVD API are fetched, the list is sorted and cut
MergeSortReturn ==
  /\ news_pc = "collect"
  /\ yielded = NewsTasks
  /\ IF include_cves
       THEN \E cve1 \in CveFeedDocs, cve2 \in CveFeedDocs, nvd \in NvdResponses :
              LET docs == [asked |-> TRUE, cve1 |-> cve1, cve2 |-> cve2, nvd |-> nvd]
              IN /\ vuln_docs' = docs
                 /\ \E merged \in {all_items \o VulnItems(docs, CveMaxItems, NvdLimit)} : SortAndReturn(merged)
       ELSE /\ UNCHANGED vuln_docs
            /\ SortAndReturn(all_items)
  /\ UNCHANGED <<news_op, limit, include_cves, hangs, work_queue, task_state, task_feed,
                 task_items, yielded>>
  /\ UNCHANGED ai_vars
  /\ UNCHANGED fetch_vars
  /\ UNCHANGED <<cog_vars, db_vars, pool_vars>>

\* get_cves_only, lines 233-255: no task is submitted
GetCvesOnlyAsksOneMore ==
  /\ news_pc = "call"
  /\ news_op = "cves_only"
  /\ \E cve1 \in CveFeedDocs, cve2 \in CveFeedDocs, nvd \in NvdResponses :
       LET docs == [asked |-> TRUE, cve1 |-> cve1, cve2 |-> cve2, nvd |-> nvd]
       IN /\ vuln_docs' = docs
          /\ \E merged \in {VulnItems(docs, CvesOnlyMaxItems, limit + 1)} : SortAndReturn(merged)
  /\ UNCHANGED <<news_op, limit, include_cves, hangs, work_queue, task_state, task_feed,
                 task_items, yielded>>
  /\ UNCHANGED ai_vars
  /\ UNCHANGED fetch_vars
  /\ UNCHANGED <<cog_vars, db_vars, pool_vars>>
GetCvesOnly ==
  /\ news_pc = "call"
  /\ news_op = "cves_only"
  /\ \E cve1 \in CveFeedDocs, cve2 \in CveFeedDocs, nvd \in NvdResponses :
       LET docs == [asked |-> TRUE, cve1 |-> cve1, cve2 |-> cve2, nvd |-> nvd]
       IN /\ vuln_docs' = docs
          /\ \E merged \in {VulnItems(docs, CvesOnlyMaxItems, limit)} : SortAndReturn(merged)
  /\ UNCHANGED <<news_op, limit, include_cves, hangs, work_queue, task_state, task_feed,
                 task_items, yielded>>
  /\ UNCHANGED ai_vars
  /\ UNCHANGED fetch_vars
  /\ UNCHANGED <<cog_vars, db_vars, pool_vars>>

\* ==================================================== cogs/ideas_cog.py
\* max_retries of analyze_news_for_ideas when the caller gives none
DefaultMaxRetries == 2
\* save_ideas was not called
NotSaved == [called |-> FALSE, value |-> NoValue]
\* bool(v) of a decoded value
TruthyValue(v) ==
  CASE v.type = "list" -> v.items # <<>>
    [] v.type = "NoneType" -> FALSE
    [] OTHER -> TRUE

\* lines 41-62: the news are fetched; with none the handler answers and
\* returns, otherwise analyze_news_for_ideas(articles) is started
HandleIdeasCommand ==
  /\ cog_pc = "command"
  /\ \E articles \in {l \in NewsItemLists : MissingKey(l) = ""} :
       IF articles = <<>>
         THEN /\ embed' = "no_news"
              /\ cog_pc' = "done"
              /\ UNCHANGED <<ai_pc, news_items>>
         ELSE /\ ai_pc' = "call"
              /\ news_items' = articles
              /\ cog_pc' = "await"
              /\ UNCHANGED embed
  /\ UNCHANGED <<GEMINI_API_KEY, max_retries, attempt, calls, sleeps, error_strs,
                 last_response, ai_result, save_ideas_arg>>
  /\ UNCHANGED <<news_vars, fetch_vars, db_vars, pool_vars>>

\* lines 63-109: the handler routes what analyze_news_for_ideas gave
HandleIdeasResult ==
  /\ cog_pc = "await"
  /\ ai_pc \in {"returned", "raised"}
  /\ IF ai_pc = "raised"
       THEN embed' = "ai_service_error" /\ UNCHANGED save_ideas_arg
     ELSE IF ai_result.type = "str"
       THEN embed' = "error" /\ UNCHANGED save_ideas_arg
     ELSE IF ~TruthyValue(ai_result.value)
       THEN embed' = "no_ideas" /\ UNCHANGED save_ideas_arg
     ELSE /\ save_ideas_arg' = [called |-> TRUE, value |-> ai_result.value]
          /\ embed' = "ideas"
  /\ cog_pc' = "done"
  /\ UNCHANGED ai_vars
  /\ UNCHANGED <<news_vars, fetch_vars, db_vars, pool_vars>>

\* ============================== lib/news_fetcher.py, calls side by side
\* number of entries of NEWS_FEEDS each call submits
NumPoolFeeds == 5
\* two get_latest_news calls running in threads of the callers' executor
Calls == {"A", "B"}
\* the task call c submits for the f-th feed
PoolTasks == Calls \X (1..NumPoolFeeds)
Running == {t \in PoolTasks : pool_state[t] = "running"}

\* lines 187-190: one turn of the loop over NEWS_FEEDS
PoolSubmit(c) ==
  /\ call_pc[c] = "submit"
  /\ \E t \in {<<c, Len(futures[c]) + 1>>} :
       /\ futures' = [futures EXCEPT ![c] = Append(@, t)]
       /\ pool_queue' = Append(pool_queue, t)
       /\ pool_state' = [pool_state EXCEPT ![t] = "queued"]
  /\ call_pc' = [call_pc EXCEPT
                   ![c] = IF Len(futures[c]) + 1 = NumPoolFeeds THEN "collect" ELSE "submit"]
  /\ UNCHANGED <<pool_hangs, call_items>>
  /\ UNCHANGED <<ai_vars, news_vars, fetch_vars, cog_vars, db_vars>>

\* a free worker of _executor takes the oldest queued task, of any call
PoolWorkerStartNoLimit ==
  /\ pool_queue # <<>>
  /\ pool_state' = [pool_state EXCEPT ![Head(pool_queue)] = "running"]
  /\ pool_queue' = Tail(pool_queue)
  /\ UNCHANGED <<call_pc, futures, pool_hangs, call_items>>
  /\ UNCHANGED <<ai_vars, news_vars, fetch_vars, cog_vars, db_vars>>
PoolWorkerStart ==
  /\ pool_queue # <<>>
  /\ Cardinality(Running) < max_workers
  /\ pool_state' = [pool_state EXCEPT ![Head(pool_queue)] = "running"]
  /\ pool_queue' = Tail(pool_queue)
  /\ UNCHANGED <<call_pc, futures, pool_hangs, call_items>>
  /\ UNCHANGED <<ai_vars, news_vars, fetch_vars, cog_vars, db_vars>>

\* lines 94-111: _fetch_rss_feed returns, unless its feed never answers
PoolWorkerFinish(t) ==
  /\ pool_state[t] = "running"
  /\ t \notin pool_hangs
  /\ pool_state' = [pool_state EXCEPT ![t] = "done"]
  /\ UNCHANGED <<call_pc, futures, pool_queue, pool_hangs, call_items>>
  /\ UNCHANGED <<ai_vars, news_vars, fetch_vars, cog_vars, db_vars>>

\* lines 192-217: the loop over as_completed(futures), which has no timeout,
\* ends once every future of the call is done; it reads no state of other
\* calls and writes only the local all_items, then the call goes on alone
\* and returns
PoolCollect(c) ==
  /\ call_pc[c] = "collect"
  /\ \A i \in 1..Len(futures[c]) : pool_state[futures[c][i]] = "done"
  /\ call_items' = [call_items EXCEPT ![c] = {futures[c][i] : i \in 1..Len(futures[c])}]
  /\ call_pc' = [call_pc EXCEPT ![c] = "returned"]
  /\ UNCHANGED <<futures, pool_queue, pool_state, pool_hangs>>
  /\ UNCHANGED <<ai_vars, news_vars, fetch_vars, cog_vars, db_vars>>

\* ====================================================== lib/database.py
\* largest id the model lets the table give, and most ideas of one save
MaxIdeaId == 3
MaxSaveLen == 2

NoDbOp == [name |-> "", id |-> 0, ideas |-> <<>>]
NoDbResult == [ids |-> <<>>, flag |-> FALSE]
\* fetchone() giving None
NoRow == [id |-> 0, title |-> "", implemented |-> FALSE]

\* SELECT MAX(id) FROM ideas, with None as 0
MaxId(rows) ==
  IF rows = {} THEN 0
  ELSE CHOOSE m \in {r.id : r \in rows} : \A r \in rows : r.id <= m

\* the rowid an AUTOINCREMENT table gives to the k-th row of an INSERT:
\* one more than the largest rowid the table ever held
Rowid(k) ==
  (IF sqlite_sequence > MaxId(ideas_table) THEN sqlite_sequence ELSE MaxId(ideas_table)) + k

get_idea_by_id(idea_id) ==
  IF \E r \in ideas_table : r.id = idea_id
    THEN CHOOSE r \in ideas_table : r.id = idea_id
    ELSE NoRow

save_ideas(ideas) ==
  /\ sqlite_sequence + Len(ideas) <= MaxIdeaId
  /\ db_op' = [name |-> "save_ideas", id |-> 0, ideas |-> ideas]
  /\ IF ideas = <<>>
       THEN /\ db_result' = [ids |-> <<>>, flag |-> FALSE]
            /\ lastrowids' = <<>>
            /\ UNCHANGED <<ideas_table, sqlite_sequence>>
       ELSE /\ ideas_table' = ideas_table \cup
                 {[id |-> Rowid(k), title |-> ideas[k], implemented |-> FALSE] :
                    k \in 1..Len(ideas)}
            /\ sqlite_sequence' = Rowid(Len(ideas))
            /\ lastrowids' = [k \in 1..Len(ideas) |-> Rowid(k)]
            /\ db_result' = [ids |-> [k \in 1..Len(ideas) |-> MaxId(ideas_table) + k],
                             flag |-> FALSE]
  /\ UNCHANGED <<ai_vars, news_vars, fetch_vars, cog_vars, pool_vars>>

\* UPDATE ideas SET implemented = to WHERE id = idea_id AND implemented = from
UpdateImplemented(name, idea_id, from, to) ==
  /\ db_op' = [name |-> name, id |-> idea_id, ideas |-> <<>>]
  /\ ideas_table' = {IF r.id = idea_id /\ r.implemented = from
                       THEN [r EXCEPT !.implemented = to] ELSE r : r \in ideas_table}
  /\ db_result' = [ids |-> <<>>,
                   flag |-> \E r \in ideas_table : r.id = idea_id /\ r.implemented = from]
  /\ UNCHANGED <<sqlite_sequence, lastrowids>>
  /\ UNCHANGED <<ai_vars, news_vars, fetch_vars, cog_vars, pool_vars>>

mark_idea_implemented(idea_id) ==
  UpdateImplemented("mark_idea_implemented", idea_id, FALSE, TRUE)

mark_idea_unimplemented(idea_id) ==
  UpdateImplemented("mark_idea_unimplemented", idea_id, TRUE, FALSE)

delete_idea(idea_id) ==
  /\ db_op' = [name |-> "delete_idea", id |-> idea_id, ideas |-> <<>>]
  /\ ideas_table' = {r \in ideas_table : r.id # idea_id}
  /\ db_result' = [ids |-> <<>>, flag |-> \E r \in ideas_table : r.id = idea_id]
  /\ UNCHANGED <<sqlite_sequence, lastrowids>>
  /\ UNCHANGED <<ai_vars, news_vars, fetch_vars, cog_vars, pool_vars>>

\* the table init_database creates in a new file, before any operation
DbInit ==
  /\ ideas_table = {}
  /\ sqlite_sequence = 0
  /\ db_op = NoDbOp
  /\ db_result = NoDbResult
  /\ lastrowids = <<>>
  /\ ai_pc = "idle"
  /\ GEMINI_API_KEY = EnvUnset
  /\ news_items = <<>>
  /\ max_retries = 0
  /\ attempt = 0
  /\ calls = 0
  /\ sleeps = <<>>
  /\ error_strs = <<>>
  /\ last_response = NoText
  /\ ai_result = NotReturned
  /\ news_pc = "idle"
  /\ news_op = "latest"
  /\ limit = 0
  /\ include_cves = FALSE
  /\ hangs = {}
  /\ work_queue = <<>>
  /\ task_state = [t \in NewsTasks |-> "new"]
  /\ task_feed = [t \in NewsTasks |-> FeedRaises]
  /\ task_items = [t \in NewsTasks |-> <<>>]
  /\ yielded = {}
  /\ vuln_docs = NoVulnDocs
  /\ all_items = <<>>
  /\ news_result = <<>>
  /\ fetch_pc = "idle"
  /\ fetch_op = "rss"
  /\ fetch_args = NoFetchArgs
  /\ fetched = <<>>
  /\ cog_pc = "none"
  /\ embed = ""
  /\ save_ideas_arg = NotSaved
  /\ call_pc = [c \in Calls |-> "idle"]
  /\ futures = [c \in Calls |-> <<>>]
  /\ pool_queue = <<>>
  /\ pool_state = [t \in PoolTasks |-> "new"]
  /\ pool_hangs = {}
  /\ call_items = [c \in Calls |-> {}]

DbNext ==
  \/ \E ideas \in (UNION {[1..n -> {"a", "b"}] : n \in 0..MaxSaveLen}) : save_ideas(ideas)
  \/ \E idea_id \in 1..(MaxIdeaId + 1) : mark_idea_implemented(idea_id)
  \/ \E idea_id \in 1..(MaxIdeaId + 1) : mark_idea_unimplemented(idea_id)
  \/ \E idea_id \in 1..(MaxIdeaId + 1) : delete_idea(idea_id)

\* two calls enter get_latest_news on an idle pool; the feeds of some sources
\* of call B may never answer, those of call A all answer
PoolInit ==
  /\ call_pc = [c \in Calls |-> "submit"]
  /\ futures = [c \in Calls |-> <<>>]
  /\ pool_queue = <<>>
  /\ pool_state = [t \in PoolTasks |-> "new"]
  /\ pool_hangs \in {{<<"B", f>> : f \in 1..k} : k \in 0..NumPoolFeeds}
  /\ call_items = [c \in Calls |-> {}]
  /\ ai_pc = "idle"
  /\ GEMINI_API_KEY = EnvUnset
  /\ news_items = <<>>
  /\ max_retries = 0
  /\ attempt = 0
  /\ calls = 0
  /\ sleeps = <<>>
  /\ error_strs = <<>>
  /\ last_response = NoText
  /\ ai_result = NotReturned
  /\ news_pc = "idle"
  /\ news_op = "latest"
  /\ limit = 0
  /\ include_cves = FALSE
  /\ hangs = {}
  /\ work_queue = <<>>
  /\ task_state = [t \in NewsTasks |-> "new"]
  /\ task_feed = [t \in NewsTasks |-> FeedRaises]
  /\ task_items = [t \in NewsTasks |-> <<>>]
  /\ yielded = {}
  /\ vuln_docs = NoVulnDocs
  /\ all_items = <<>>
  /\ news_result = <<>>
  /\ fetch_pc = "idle"
  /\ fetch_op = "rss"
  /\ fetch_args = NoFetchArgs
  /\ fetched = <<>>
  /\ cog_pc = "none"
  /\ embed = ""
  /\ save_ideas_arg = NotSaved
  /\ ideas_table = {}
  /\ sqlite_sequence = 0
  /\ db_op = NoDbOp
  /\ db_result = NoDbResult
  /\ lastrowids = <<>>

PoolNext ==
  \/ \E c \in Calls : PoolSubmit(c)
  \/ PoolWorkerStart
  \/ \E t \in PoolTasks : PoolWorkerFinish(t)
  \/ \E c \in Calls : PoolCollect(c)

\* a call of get_latest_news or get_cves_only is about to start; no AI call
\* runs
NewsInit ==
  /\ news_pc = "call"
  /\ news_op \in {"latest", "cves_only"}
  /\ limit \in 0..MaxLimit
  /\ include_cves \in BOOLEAN
  /\ hangs \in {{}} \cup {{t} : t \in NewsTasks}
  /\ news_op = "cves_only" => include_cves /\ hangs = {}
  /\ work_queue = <<>>
  /\ task_state = [t \in NewsTasks |-> "new"]
  /\ task_feed = [t \in NewsTasks |-> FeedRaises]
  /\ task_items = [t \in NewsTasks |-> <<>>]
  /\ yielded = {}
  /\ vuln_docs = NoVulnDocs
  /\ all_items = <<>>
  /\ news_result = <<>>
  /\ ai_pc = "idle"
  /\ GEMINI_API_KEY = EnvUnset
  /\ news_items = <<>>
  /\ max_retries = 0
  /\ attempt = 0
  /\ calls = 0
  /\ sleeps = <<>>
  /\ error_strs = <<>>
  /\ last_response = NoText
  /\ ai_result = NotReturned
  /\ fetch_pc = "idle"
  /\ fetch_op = "rss"
  /\ fetch_args = NoFetchArgs
  /\ fetched = <<>>
  /\ cog_pc = "none"
  /\ embed = ""
  /\ save_ideas_arg = NotSaved
  /\ ideas_table = {}
  /\ sqlite_sequence = 0
  /\ db_op = NoDbOp
  /\ db_result = NoDbResult
  /\ lastrowids = <<>>
  /\ call_pc = [c \in Calls |-> "idle"]
  /\ futures = [c \in Calls |-> <<>>]
  /\ pool_queue = <<>>
  /\ pool_state = [t \in PoolTasks |-> "new"]
  /\ pool_hangs = {}
  /\ call_items = [c \in Calls |-> {}]

NewsNext ==
  \/ SubmitFeeds
  \/ WorkerStart
  \/ \E t \in NewsTasks : WorkerFinish(t)
  \/ \E t \in NewsTasks : CollectFuture(t)
  \/ MergeSortReturn
  \/ GetCvesOnly


\* a direct call of _fetch_rss_feed(feed_url, source_name, is_cve, max_items)
FetchRssFeed ==
  /\ fetch_pc = "call"
  /\ fetch_op = "rss"
  /\ fetched' = _fetch_rss_feed(fetch_args.feed, SCveSource2, fetch_args.is_cve,
                                fetch_args.max_items)
  /\ fetch_pc' = "returned"
  /\ UNCHANGED <<fetch_op, fetch_args>>
  /\ UNCHANGED <<ai_vars, news_vars>>
  /\ UNCHANGED <<cog_vars, db_vars, pool_vars>>

\* a direct call of _fetch_nvd_cve_recent(limit)
FetchNvdCveRecent ==
  /\ fetch_pc = "call"
  /\ fetch_op = "nvd"
  /\ fetched' = _fetch_nvd_cve_recent(fetch_args.response, fetch_args.nvd_limit)
  /\ fetch_pc' = "returned"
  /\ UNCHANGED <<fetch_op, fetch_args>>
  /\ UNCHANGED <<ai_vars, news_vars>>
  /\ UNCHANGED <<cog_vars, db_vars, pool_vars>>

\* one of the two fetchers is about to be called; nothing else runs
FetchInit ==
  /\ fetch_pc = "call"
  /\ fetch_op \in {"rss", "nvd"}
  /\ \/ /\ fetch_op = "rss"
        /\ \E feed \in {FeedRaises} \cup {Feed(es) : es \in SeqsUpTo(FetchEntries, MaxEntries)},
              is_cve \in BOOLEAN, max_items \in 0..MaxItemsArg :
             fetch_args = FetchArgs(feed, is_cve, max_items, NvdNetworkError, 0)
     \/ /\ fetch_op = "nvd"
        /\ \E response \in {NvdNetworkError, [kind |-> "status", records |-> <<>>], [kind |-> "undecodable", records |-> <<>>], [kind |-> "nokey", records |-> <<>>]}
                           \cup {NvdData(rs) : rs \in SeqsUpTo(FetchRecords, MaxRecords)},
              nvd_limit \in 0..MaxNvdLimitArg :
             fetch_args = FetchArgs(FeedRaises, FALSE, 0, response, nvd_limit)
  /\ fetched = <<>>
  /\ news_pc = "idle"
  /\ news_op = "latest"
  /\ limit = 0
  /\ include_cves = FALSE
  /\ hangs = {}
  /\ work_queue = <<>>
  /\ task_state = [t \in NewsTasks |-> "new"]
  /\ task_feed = [t \in NewsTasks |-> FeedRaises]
  /\ task_items = [t \in NewsTasks |-> <<>>]
  /\ yielded = {}
  /\ vuln_docs = NoVulnDocs
  /\ all_items = <<>>
  /\ news_result = <<>>
  /\ ai_pc = "idle"
  /\ GEMINI_API_KEY = EnvUnset
  /\ news_items = <<>>
  /\ max_retries = 0
  /\ attempt = 0
  /\ calls = 0
  /\ sleeps = <<>>
  /\ error_strs = <<>>
  /\ last_response = NoText
  /\ ai_result = NotReturned
  /\ cog_pc = "none"
  /\ embed = ""
  /\ save_ideas_arg = NotSaved
  /\ ideas_table = {}
  /\ sqlite_sequence = 0
  /\ db_op = NoDbOp
  /\ db_result = NoDbResult
  /\ lastrowids = <<>>
  /\ call_pc = [c \in Calls |-> "idle"]
  /\ futures = [c \in Calls |-> <<>>]
  /\ pool_queue = <<>>
  /\ pool_state = [t \in PoolTasks |-> "new"]
  /\ pool_hangs = {}
  /\ call_items = [c \in Calls |-> {}]

FetchNext ==
  \/ FetchRssFeed
  \/ FetchNvdCveRecent

\* a call of analyze_news_for_ideas is about to start; no aggregation runs
AIInit ==
  /\ GEMINI_API_KEY \in EnvValues
  /\ news_items \in NewsItemLists
  /\ max_retries \in (-1)..MaxRetriesBound
  /\ attempt = 0
  /\ calls = 0
  /\ sleeps = <<>>
  /\ error_strs = <<>>
  /\ last_response = NoText
  /\ ai_result = NotReturned
  /\ news_pc = "idle"
  /\ news_op = "latest"
  /\ limit = 0
  /\ include_cves = FALSE
  /\ hangs = {}
  /\ work_queue = <<>>
  /\ task_state = [t \in NewsTasks |-> "new"]
  /\ task_feed = [t \in NewsTasks |-> FeedRaises]
  /\ task_items = [t \in NewsTasks |-> <<>>]
  /\ yielded = {}
  /\ vuln_docs = NoVulnDocs
  /\ all_items = <<>>
  /\ news_result = <<>>
  /\ fetch_pc = "idle"
  /\ fetch_op = "rss"
  /\ fetch_args = NoFetchArgs
  /\ fetched = <<>>
  /\ cog_pc \in {"none", "command"}
  /\ cog_pc = "command" => (news_items = <<>> /\ max_retries = DefaultMaxRetries)
  /\ ai_pc = IF cog_pc = "none" THEN "call" ELSE "idle"
  /\ embed = ""
  /\ save_ideas_arg = NotSaved
  /\ ideas_table = {}
  /\ sqlite_sequence = 0
  /\ db_op = NoDbOp
  /\ db_result = NoDbResult
  /\ lastrowids = <<>>
  /\ call_pc = [c \in Calls |-> "idle"]
  /\ futures = [c \in Calls |-> <<>>]
  /\ pool_queue = <<>>
  /\ pool_state = [t \in PoolTasks |-> "new"]
  /\ pool_hangs = {}
  /\ call_items = [c \in Calls |-> {}]

AINext ==
  \/ AnalyzeStart
  \/ AttemptItemError
  \/ AttemptTransportError
  \/ AttemptResponse
  \/ HandleIdeasCommand
  \/ HandleIdeasResult

vars == <<ai_vars, news_vars, fetch_vars, cog_vars, db_vars, pool_vars>>

\* one call of analyze_news_for_ideas
SpecAI == AIInit /\ [][AINext]_vars

\* one call of get_latest_news and the workers of _executor
SpecNews == NewsInit /\ [][NewsNext]_vars
\* the caller thread and the workers of the pool keep running
FairSpecNews == SpecNews /\ WF_vars(NewsNext)
SpecFetch == FetchInit /\ [][FetchNext]_vars
\* the operations of lib/database.py on one database file, in any order
SpecDb == DbInit /\ [][DbNext]_vars
\* get_latest_news calls side by side and the workers of _executor
SpecPool == PoolInit /\ [][PoolNext]_vars
\* the caller threads and the workers of the pool keep running
FairSpecPool == SpecPool /\ WF_vars(PoolNext)

\* ===================================================== the claims, AI part
\* signals of an error text, as the retry policy names them
OverloadSignal(e) == In(S503, e) \/ In(SUNAVAILABLE, e) \/ In(lower(Soverloaded), lower(e))
AuthSignal(e) == In(S401, e) \/ In(S403, e) \/ In(lower(SAPIkey), lower(e))
RateLimitSignal(e) == In(S429, e) \/ In(lower(Sratelimit), lower(e))
GenericSignal(e) == ~OverloadSignal(e) /\ ~AuthSignal(e) /\ ~RateLimitSignal(e)

\* the call returned from the except block of its last attempt
LastAttemptFailed == ai_pc = "returned" /\ Len(error_strs) = attempt + 1
\* the call returned the decoded response of its last attempt
LastAttemptDecoded == ai_pc = "returned" /\ ai_result.msg = "" /\ Len(error_strs) = attempt

\* C2: for max_retries = m >= 0 the AI transport is called at most m + 1
\* times, whatever the outcomes of the attempts are.
C2_RetryBound == max_retries >= 0 => calls <= max_retries + 1
C2_Witness == ai_pc = "returned" /\ max_retries = 2 /\ calls = 3

\* C3: when every attempt failed with an overload text, the call made
\* max_retries + 1 attempts, slept max_retries times, the sleep after attempt
\* i (0-based) lasting (i + 1) * 2 seconds, and returned the overloaded string.
C3_OverloadBackoff ==
  (/\ Len(error_strs) >= 1
   /\ \A i \in 1..Len(error_strs) : OverloadSignal(error_strs[i])
   /\ ai_pc # "returned" \/ LastAttemptFailed)
  => /\ \A i \in 1..Len(sleeps) : sleeps[i] = i * 2
     /\ ai_pc = "attempt" => Len(sleeps) = Len(error_strs) /\ Len(sleeps) <= max_retries
     /\ ai_pc = "returned" =>
          /\ Len(error_strs) = max_retries + 1
          /\ calls = max_retries + 1
          /\ Len(sleeps) = max_retries
          /\ ai_result = ErrorString("overloaded", <<>>)
C3_Witness ==
  /\ LastAttemptFailed
  /\ max_retries = 2
  /\ \A i \in 1..Len(error_strs) : OverloadSignal(error_strs[i])
  /\ sleeps = <<2, 4>>

\* C4: when the first k attempts failed with an overload text and attempt
\* k + 1 returned a valid structured payload, the call returns the list decoded
\* from that payload after k + 1 transport calls and k sleeps.
IdeaTokens == {"idea1", "idea2"}
ValidPayload(response) ==
  /\ response.has_text
  /\ response.text \in {<<"[", "idea1", ",", " ", "idea2", "]">>,
                        <<FenceJson, " ", "[", "idea2", "]", " ", Fence>>}
PayloadIdeas(response) ==
  LET toks == SelectSeq(response.text, LAMBDA t : t \in IdeaTokens)
  IN [i \in 1..Len(toks) |-> [type |-> "dict", tok |-> toks[i], items |-> <<>>]]
C4_RecoverAfterOverload ==
  (/\ LastAttemptDecoded
   /\ \A i \in 1..Len(error_strs) : OverloadSignal(error_strs[i])
   /\ ValidPayload(last_response))
  => /\ ai_result.type = "list"
     /\ ai_result.value.items = PayloadIdeas(last_response)
     /\ calls = Len(error_strs) + 1
     /\ Len(sleeps) = Len(error_strs)
C4_Witness ==
  /\ LastAttemptDecoded
  /\ max_retries = 2
  /\ Len(error_strs) = 2
  /\ error_strs[1] = ErrUnavailable503 /\ error_strs[2] = ErrUnavailable503
  /\ ai_result.type = "list" /\ Len(ai_result.value.items) = 2
  /\ Len(sleeps) = 2

\* C5: an attempt that fails with a text carrying an authentication signal
\* (401, 403 or the phrase API key) and no overload signal is the last one:
\* the call returns the authentication-failed string, with no further call
\* and no sleep.
C5_AuthNoRetry ==
  \A i \in 1..Len(error_strs) :
    (AuthSignal(error_strs[i]) /\ ~OverloadSignal(error_strs[i]))
    => /\ i = Len(error_strs)
       /\ ai_pc = "returned"
       /\ ai_result = ErrorString("auth_failed", <<>>)
       /\ Len(sleeps) = i - 1
       /\ i = 1 => calls = 1

\* C6: an attempt that fails with a text carrying a rate-limit signal (429
\* or rate limit, in any case) and neither an overload nor an authentication
\* signal is the last one: the call returns the rate-limited string, with no
\* further call and no sleep.
C6_RateLimitNoRetry ==
  \A i \in 1..Len(error_strs) :
    (/\ RateLimitSignal(error_strs[i])
     /\ ~OverloadSignal(error_strs[i])
     /\ ~AuthSignal(error_strs[i]))
    => /\ i = Len(error_strs)
       /\ ai_pc = "returned"
       /\ ai_result = ErrorString("rate_limited", <<>>)
       /\ Len(sleeps) = i - 1
       /\ calls <= i
C6_Witness ==
  /\ ai_pc = "returned"
  /\ Len(error_strs) = 2
  /\ error_strs[2] = ErrRateLimit
  /\ ai_result = ErrorString("rate_limited", <<>>)
  /\ calls = 2

\* C7: when every attempt failed with a text carrying none of the signals,
\* the call made max_retries + 1 attempts with a 1-second sleep between
\* consecutive attempts and returned the error string that embeds the first
\* 200 characters, at most, of the last raw error text.
C7_GenericRetry ==
  (/\ LastAttemptFailed
   /\ \A i \in 1..Len(error_strs) : GenericSignal(error_strs[i]))
  => LET last == error_strs[Len(error_strs)]
     IN /\ Len(error_strs) = max_retries + 1
        /\ sleeps = [i \in 1..max_retries |-> 1]
        /\ ai_result.type = "str"
        /\ ai_result.msg = "service_error"
        /\ Len(ai_result.detail) <= 200
        /\ Len(ai_result.detail) = (IF Len(last) < 200 THEN Len(last) ELSE 200)
        /\ ai_result.detail = SubSeq(last, 1, Len(ai_result.detail))
C7_Witness ==
  /\ LastAttemptFailed
  /\ max_retries = 2
  /\ \A i \in 1..Len(error_strs) : GenericSignal(error_strs[i])
  /\ error_strs[Len(error_strs)] = ErrLong
  /\ Len(ai_result.detail) = 200
  /\ sleeps = <<1, 1>>

\* C8: with GEMINI_API_KEY unset or empty the call returns the
\* configuration-error string with no transport call and no sleep.
C8_NoCredential ==
  GEMINI_API_KEY \in {EnvUnset, ""}
  => /\ calls = 0
     /\ sleeps = <<>>
     /\ ai_pc \in {"idle", "call", "returned"}
     /\ ai_pc = "returned" => ai_result = ErrorString("not_configured", <<>>)
C8_Witness ==
  /\ ai_pc = "returned"
  /\ GEMINI_API_KEY = ""
  /\ max_retries = 2
  /\ news_items # <<>>
  /\ ai_result = ErrorString("not_configured", <<>>)

\* C9: the call never raises to its caller: whatever the outcomes of the
\* attempts are, no exception leaves the function, and as long as it has not
\* returned it can take its next step.
C9_NeverRaises ==
  /\ ai_pc # "raised"
  /\ ai_pc \in {"call", "attempt"} => ENABLED AINext
  /\ ai_pc = "returned" => ai_result # NotReturned
C9_Witness ==
  /\ ai_pc = "returned"
  /\ Len(error_strs) = 3
  /\ error_strs[1] = NoneTypeError
  /\ error_strs[2] = JSONDecodeErrorStr(json_loads(<<"prose">>))
  /\ error_strs[3] = ErrReset

\* C10: every returned value is a list of idea records or one of the error
\* strings of the failure paths.
C10_ListOrErrorString ==
  ai_pc = "returned" => (ai_result.msg # "" /\ ai_result.type = "str") \/ ai_result.type = "list"


\* =================================================== the claims, news part
\* C1: a feed task that does not complete is dropped and not waited on: the
\* collection of the futures always ends and get_latest_news goes on to merge,
\* sort and return, even when feed tasks never complete.
C1_StragglersDropped == (news_pc = "collect") ~> (news_pc \in {"returned", "raised"})

\* ------------------------------------------------------------ aggregator
\* the call has ended, by a return or by an exception
NewsCallEnded == news_pc \in {"returned", "raised"}
\* every source the call asked has failed
NewsSourcesFailed == news_op = "latest" => \A t \in NewsTasks : task_feed[t].raises
VulnSourcesFailed ==
  vuln_docs.asked =>
    vuln_docs.cve1.raises /\ vuln_docs.cve2.raises /\ vuln_docs.nvd.kind # "ok"

\* C11: get_latest_news and get_cves_only never raise to the caller, whatever
\* the sources answer and whatever the dates of the items are, and the list
\* they return is empty when every source failed
C11_NeverRaisesToCaller ==
  /\ news_pc # "raised"
  /\ (news_pc = "returned" /\ NewsSourcesFailed /\ VulnSourcesFailed) => news_result = <<>>

\* what the source of task t returned, nothing when it failed
SucceededItems(t) ==
  IF task_feed[t].raises THEN <<>>
  ELSE _fetch_rss_feed(task_feed[t], SourceName(t), FALSE, 2)
RECURSIVE TotalSucceeded(_)
TotalSucceeded(n) == IF n = 0 THEN 0 ELSE Len(SucceededItems(n)) + TotalSucceeded(n - 1)
NoVulnerabilityItems == \A i \in 1..Len(all_items) : all_items[i].type # "CVE"
Occurrences(items, x) == Cardinality({i \in 1..Len(items) : items[i] = x})

\* C12: in get_latest_news with no vulnerability items, the result has
\* exactly min(limit, N) items, N being the number of items the succeeded
\* sources returned; every returned item comes from a succeeded source, and
\* with limit >= N every item of every succeeded source is returned
C12_FaultIsolation ==
  (news_op = "latest" /\ NewsCallEnded /\ NoVulnerabilityItems) =>
    /\ news_pc = "returned"
    /\ Len(news_result) = Min(limit, TotalSucceeded(NumNewsFeeds))
    /\ \A i \in 1..Len(news_result) :
         \E t \in NewsTasks :
           /\ ~task_feed[t].raises
           /\ \E j \in 1..Len(SucceededItems(t)) : SucceededItems(t)[j] = news_result[i]
    /\ limit >= TotalSucceeded(NumNewsFeeds) =>
         \A t \in NewsTasks : \A j \in 1..Len(SucceededItems(t)) :
           Occurrences(news_result, SucceededItems(t)[j]) = 1
\* one source failed, two others returned three or more items between them,
\* and all of them came back
C12_Witness ==
  /\ news_op = "latest"
  /\ news_pc = "returned"
  /\ ~include_cves
  /\ \E t \in NewsTasks : task_feed[t].raises
  /\ Cardinality({t \in NewsTasks : Len(SucceededItems(t)) > 0}) >= 2
  /\ TotalSucceeded(NumNewsFeeds) >= 3
  /\ Len(news_result) = TotalSucceeded(NumNewsFeeds)

\* C13: get_latest_news(limit=n) and get_cves_only(limit=n) return at most n
\* items, for every n >= 0 and whatever was collected
C13_AtMostLimit == news_pc = "returned" => Len(news_result) <= limit
\* more items were collected than limit, and limit of them came back
C13_Witness ==
  /\ news_pc = "returned"
  /\ news_op = "latest"
  /\ limit > 0
  /\ Len(all_items) > limit
  /\ Len(news_result) = limit

\* the instant of a date, 0 (before every instant) when the item has none
DateOf(item) == IF item.date.kind \in {"naive", "aware"} THEN item.date.t ELSE 0
HasDate(item) == item.date.kind \in {"naive", "aware"}
\* place of all_items[i] in the stable descending sort: after every item
\* with a later date and after the earlier collected items of the same date
PlaceOf(i) ==
  1 + Cardinality({j \in 1..Len(all_items) : DateOf(all_items[j]) > DateOf(all_items[i])})
    + Cardinality({j \in 1..(i - 1) : DateOf(all_items[j]) = DateOf(all_items[i])})

\* C14: the returned list is the first limit elements of the stable
\* descending-by-date sort of the merged items in collection order: dates do
\* not increase, undated items follow every dated item, and items of equal
\* or absent date keep their collection order
C14_StableDescendingSort ==
  news_pc = "returned" =>
    /\ Len(news_result) = Min(limit, Len(all_items))
    /\ \A i \in 1..Len(all_items) :
         PlaceOf(i) <= limit => news_result[PlaceOf(i)] = all_items[i]
    /\ \A i \in 1..Len(news_result) : \A j \in (i + 1)..Len(news_result) :
         /\ DateOf(news_result[i]) >= DateOf(news_result[j])
         /\ HasDate(news_result[j]) => HasDate(news_result[i])
\* the sort moved a later item before an earlier collected one, two items of
\* the same date and two undated items came back
C14_Witness ==
  /\ news_pc = "returned"
  /\ \E i \in 1..Len(all_items) : \E j \in (i + 1)..Len(all_items) :
       /\ DateOf(all_items[i]) < DateOf(all_items[j])
       /\ PlaceOf(j) <= limit
  /\ \E i \in 1..Len(news_result) : \E j \in (i + 1)..Len(news_result) :
       /\ HasDate(news_result[i])
       /\ DateOf(news_result[i]) = DateOf(news_result[j])
       /\ news_result[i] # news_result[j]
  /\ \E i \in 1..Len(news_result) : \E j \in (i + 1)..Len(news_result) :
       /\ ~HasDate(news_result[i])
       /\ ~HasDate(news_result[j])
       /\ news_result[i] # news_result[j]

\* --------------------------------------------------------------- fetchers
RssReturned == fetch_pc = "returned" /\ fetch_op = "rss"
NvdReturned == fetch_pc = "returned" /\ fetch_op = "nvd"
\* the entries _fetch_rss_feed looks at, and the records the NVD loop visits
TakenEntries ==
  SubSeq(fetch_args.feed.entries, 1, Min(Len(fetch_args.feed.entries), fetch_args.max_items))
TakenRecords ==
  SubSeq(fetch_args.response.records, 1,
         Min(Len(fetch_args.response.records), fetch_args.nvd_limit))
\* the body text of an entry: summary, else description, else the placeholder
BodyOf(entry) ==
  IF entry.summary.k # "absent" /\ entry.summary # StrV(<<>>) THEN entry.summary
  ELSE IF entry.description.k # "absent" /\ entry.description # StrV(<<>>)
    THEN entry.description
  ELSE StrV(SNoDescription)
EnglishOrFirst(descriptions) ==
  IF \E i \in 1..Len(descriptions) : descriptions[i].lang = SEn
    THEN descriptions[SetMin({i \in 1..Len(descriptions) : descriptions[i].lang = SEn})].value
  ELSE IF descriptions # <<>> THEN descriptions[1].value
  ELSE SNoDescription

\* C15: every item built by _parse_feed_entry or by _fetch_nvd_cve_recent has
\* a summary of at most 500 characters, and a body (the HTML-stripped feed
\* text, the NVD description) longer than 500 characters is cut to exactly
\* its first 500 characters, nothing appended
C15_SummaryBound ==
  fetch_pc = "returned" =>
    /\ \A i \in 1..Len(fetched) : Len(fetched[i].summary) <= 500
    /\ fetch_op = "rss" =>
         \A k \in 1..Len(TakenEntries) :
           LET body == BodyOf(TakenEntries[k])
               cleaned == _clean_html(body.s)
           IN (body.k = "str" /\ Len(cleaned) > 500) =>
                \E i \in 1..Len(fetched) : fetched[i].summary = SubSeq(cleaned, 1, 500)
    /\ fetch_op = "nvd" =>
         \A i \in 1..Len(fetched) :
           LET description == EnglishOrFirst(TakenRecords[i].descriptions)
           IN Len(description) > 500 => fetched[i].summary = SubSeq(description, 1, 500)
\* a feed entry with a body of more than 500 characters was normalized and
\* its summary has exactly 500 characters
C15_Witness ==
  /\ RssReturned
  /\ \E k \in 1..Len(TakenEntries) :
       /\ BodyOf(TakenEntries[k]).k = "str"
       /\ Len(BodyOf(TakenEntries[k]).s) > 500
  /\ \E i \in 1..Len(fetched) : Len(fetched[i].summary) = 500

\* the taken entries whose normalization succeeds
GoodEntries ==
  {k \in 1..Len(TakenEntries) :
     _parse_feed_entry(TakenEntries[k], SCveSource2, fetch_args.is_cve).ok}

\* C16: _fetch_rss_feed never raises and returns a list: the empty list when
\* the retrieval raises, otherwise the normalizations of those of the first
\* max_items entries that normalize, in the feed's order; an entry whose
\* normalization fails is skipped and the others are kept
C16_FetchFeed ==
  RssReturned =>
    /\ fetch_args.feed.raises => fetched = <<>>
    /\ Len(fetched) <= fetch_args.max_items
    /\ Len(fetched) = Cardinality(GoodEntries)
    /\ \A k \in GoodEntries :
         fetched[Cardinality({g \in GoodEntries : g <= k})]
           = _parse_feed_entry(TakenEntries[k], SCveSource2, fetch_args.is_cve).item
\* the first taken entry failed to normalize and the one after it was kept
C16_Witness ==
  /\ RssReturned
  /\ Len(TakenEntries) = 2
  /\ 1 \notin GoodEntries
  /\ 2 \in GoodEntries
  /\ Len(fetched) = 1

\* s is an identifier CVE-<4 digits>-<4 or more digits>
IsCveId(s) ==
  /\ Len(s) >= 13
  /\ s[1] = "C" /\ s[2] = "V" /\ s[3] = "E" /\ s[4] = "-"
  /\ \A k \in 5..8 : s[k] \in DigitChars
  /\ s[9] = "-"
  /\ \A k \in 10..Len(s) : s[k] \in DigitChars
\* an identifier starts at p in text
IdStartsAt(text, p) == p + 12 <= Len(text) /\ IsCveId(SubSeq(text, p, p + 12))
\* id is the first, longest identifier in text
IsFirstMatch(text, id) ==
  /\ IsCveId(id)
  /\ \E p \in 1..(Len(text) - Len(id) + 1) :
       /\ SubSeq(text, p, p + Len(id) - 1) = id
       /\ p + Len(id) <= Len(text) => text[p + Len(id)] \notin DigitChars
       /\ \A q \in 1..(p - 1) : ~IdStartsAt(text, q)
\* the feed part of C17: the first match in title, space, link, else absent
FeedItemIdRule(item) ==
  LET text == item.title \o <<" ">> \o item.link
  IN IF fetch_args.is_cve /\ \E p \in 1..Len(text) : IdStartsAt(text, p)
       THEN item.has_cve_id /\ IsFirstMatch(text, item.cve_id)
       ELSE ~item.has_cve_id

\* C17 as stated: in every returned item cve_id is present only for type
\* CVE and is an identifier CVE-<4 digits>-<4 or more digits>; in a
\* feed-parsed CVE item it is the first match in the title followed by the
\* link, and it is absent when nothing matches
C17_IdMatchesPattern ==
  fetch_pc = "returned" =>
    /\ \A i \in 1..Len(fetched) :
         fetched[i].has_cve_id => fetched[i].type = "CVE" /\ IsCveId(fetched[i].cve_id)
    /\ fetch_op = "rss" => \A i \in 1..Len(fetched) : FeedItemIdRule(fetched[i])
\* C17 amended: cve_id is present only for type CVE; in a feed-parsed item
\* it is the first match of the pattern in the title followed by the link
\* and absent without a match; in an item of _fetch_nvd_cve_recent it is
\* always present and is the id field of the record, or the text Unknown
\* when the record has none, whether or not it has the pattern
C17_IdOfItem ==
  fetch_pc = "returned" =>
    /\ \A i \in 1..Len(fetched) : fetched[i].has_cve_id => fetched[i].type = "CVE"
    /\ fetch_op = "rss" => \A i \in 1..Len(fetched) : FeedItemIdRule(fetched[i])
    /\ fetch_op = "nvd" =>
         \A i \in 1..Len(fetched) :
           /\ fetched[i].has_cve_id
           /\ fetched[i].cve_id = IF TakenRecords[i].id.k = "absent"
                                    THEN <<"U","n","k","n","o","w","n">>
                                    ELSE TakenRecords[i].id.s
\* a CVE feed entry with CVE-2024-12345 in its title and another identifier
\* in its link gave an item with cve_id CVE-2024-12345
C17_Witness ==
  /\ RssReturned
  /\ \E i \in 1..Len(fetched) :
       /\ In(CveId1, fetched[i].title)
       /\ In(<<"C","V","E","-","2","0","2","3">>, fetched[i].link)
       /\ fetched[i].has_cve_id
       /\ fetched[i].cve_id = CveId1

CountSource(items, source) == Cardinality({i \in 1..Len(items) : items[i].source = source})
NoTaskSubmitted == work_queue = <<>> /\ \A t \in NewsTasks : task_state[t] = "new"

FirstAvailableScore(metrics) ==
  IF \E v \in 1..3 : metrics[v].k = "score"
    THEN Cvss(metrics[SetMin({v \in 1..3 : metrics[v].k = "score"})].v)
    ELSE CvssNone

\* C19: the cvss_score of an NVD item is the score of the first version, in
\* the order v3.1, v3.0, v2, that carries a score, and is None only when no
\* version carries one
C19_FirstAvailableScore ==
  NvdReturned =>
    \A i \in 1..Len(fetched) :
      fetched[i].cvss_score = FirstAvailableScore(TakenRecords[i].metrics)

\* a network or API-format error happened during the call
NvdErrorOccurred ==
  \/ fetch_args.response.kind \in {"network_error", "status", "undecodable"}
  \/ \E i \in 1..Len(TakenRecords) : ~TakenRecords[i].is_dict

\* C20: _fetch_nvd_cve_recent never raises, and returns the empty list
\* whenever a network error or an API-format error (status other than 200,
\* undecodable body, malformed record at any position) happened
C20_EmptyOnError == (NvdReturned /\ NvdErrorOccurred) => fetched = <<>>

\* C21: every _fetch_rss_feed call terminates: a fetch task that has started
\* ends, with a list, even when the remote feed never responds
C21_FetchTerminates ==
  \A t \in NewsTasks : (task_state[t] = "running") ~> (task_state[t] = "done")

\* the texts of the decode errors of the responses that fail both decodes
UndecodableErrorStrs ==
  {JSONDecodeErrorStr(json_loads(StripFences(r.text))) :
     r \in {x \in Responses : x.has_text /\ ~json_loads(x.text).ok
                              /\ ~json_loads(StripFences(x.text)).ok}}

\* C26: an attempt whose response fails both decodes takes the generic-retry
\* path whatever the text of the decode error is: it is followed by a sleep
\* of 1 second while attempts remain, and as the last attempt it returns the
\* service-error string carrying the truncated error text.
C26_UndecodableIsGeneric ==
  \A i \in 1..Len(error_strs) :
    error_strs[i] \in UndecodableErrorStrs
    => /\ i <= Len(sleeps) => sleeps[i] = GenericWait
       /\ (i > Len(sleeps) /\ ai_pc = "returned")
          => ai_result = ErrorString("service_error", Slice(error_strs[i], TruncateLen))

\* C27: every failed attempt is handled as the class the precedence overload,
\* authentication, rate-limit, generic gives to the signals of its error text:
\* an overload signal means backoff (or the overloaded string on the last
\* attempt) whatever else the text carries, an authentication signal without
\* an overload signal means the authentication-failed string whatever else
\* the text carries, then rate-limit, then generic.
C27_Precedence ==
  \A i \in 1..Len(error_strs) :
    LET e == error_strs[i]
        last == i > Len(sleeps) /\ ai_pc = "returned"
    IN /\ i <= Len(sleeps)
          => \/ OverloadSignal(e) /\ sleeps[i] = OverloadWait(i - 1)
             \/ GenericSignal(e) /\ sleeps[i] = GenericWait
       /\ last
          => ai_result =
               IF OverloadSignal(e) THEN ErrorString("overloaded", <<>>)
               ELSE IF AuthSignal(e) THEN ErrorString("auth_failed", <<>>)
               ELSE IF RateLimitSignal(e) THEN ErrorString("rate_limited", <<>>)
               ELSE ErrorString("service_error", Slice(e, TruncateLen))

\* an idea record, as json.loads gives it
IsIdeaRecord(v) == v.type = "dict"

\* C22: handle_ideas_command calls save_ideas only with a non-empty list of
\* idea records; when analyze_news_for_ideas gave a string the handler
\* answers with it and saves nothing; and with no news the generator is not
\* called at all.
C22_SaveOnlyIdeaLists ==
  /\ save_ideas_arg.called
     => /\ save_ideas_arg.value.type = "list"
        /\ save_ideas_arg.value.items # <<>>
        /\ \A k \in 1..Len(save_ideas_arg.value.items) :
             IsIdeaRecord(save_ideas_arg.value.items[k])
  /\ (cog_pc = "done" /\ ai_result.type = "str")
     => (embed = "error" /\ ~save_ideas_arg.called)
  /\ embed = "no_news" => (ai_pc = "idle" /\ calls = 0 /\ ~save_ideas_arg.called)

\* C23: mark_idea_implemented(id) returns False only when the table holds no
\* idea with that id, and for an id the table holds it returns True and
\* leaves the idea implemented.
C23_FalseMeansNotFound ==
  db_op.name = "mark_idea_implemented"
  => /\ ~db_result.flag => get_idea_by_id(db_op.id) = NoRow
     /\ get_idea_by_id(db_op.id) # NoRow
        => (db_result.flag /\ get_idea_by_id(db_op.id).implemented)

\* C24: the list save_ideas returns is the ids its rows received, in order:
\* get_idea_by_id of the k-th returned id gives the k-th saved idea.
C24_ReturnedIdsAreRowIds ==
  db_op.name = "save_ideas"
  => /\ db_result.ids = lastrowids
     /\ \A k \in 1..Len(db_op.ideas) :
          get_idea_by_id(db_result.ids[k]).title = db_op.ideas[k]

\* C25: at most max_workers (5) fetch tasks are running at any moment,
\* counted across the calls in flight; a call that has left its submit loop
\* has submitted one task per news source, in the order of the sources; and
\* a submitted task that is not running and has not finished waits in the
\* queue of the pool.
C25_AtMostFiveRunning ==
  /\ Cardinality(Running) <= max_workers
  /\ \A c \in Calls :
       call_pc[c] \in {"collect", "returned"}
       => futures[c] = [f \in 1..NumPoolFeeds |-> <<c, f>>]
  /\ \A t \in PoolTasks :
       pool_state[t] = "queued"
       <=> (\E i \in 1..Len(pool_queue) : pool_queue[i] = t)
  /\ \A i, j \in 1..Len(pool_queue) : pool_queue[i] = pool_queue[j] => i = j
C25_Witness ==
  /\ Cardinality(Running) = max_workers
  /\ \E t \in Running : t[1] = "A"
  /\ \E t \in Running : t[1] = "B"
  /\ pool_queue # <<>>
  /\ \A c \in Calls : call_pc[c] = "collect"

\* C28: when every task of call A finishes once it has a worker, call A
\* returns, whatever the tasks of call B do, and what A has collected was
\* produced by tasks of A.
C28_CallsIndependent ==
  /\ [](\A t \in call_items["A"] : t[1] = "A")
  /\ (call_pc["A"] = "collect") ~> (call_pc["A"] = "returned")

====
